---- MODULE Spec2Model ----
(***************************************************************************)
(* Model of src/main.py: the mining functions (extract_ngrams,             *)
(* top_syntactic_structures, find_sentence_with_ngram and their helpers)   *)
(* and the NLPApp session (load_file, the Run button's worker threads      *)
(* running analyze, clear_output).                                         *)
(*                                                                         *)
(* Texts.  A text is the sequence of its whitespace-separated words.       *)
(* Module strings are ASCII, so Russian words are transliterated:          *)
(* "Klapany" (lemma "klapan"), "nasos", "rabotaet" (lemma "rabotat"),      *)
(* "v", "GOST", and the digit code "57528"; "." is a punctuation token and *)
(* " " a run of extra whitespace that the tokenizer returns as a token.    *)
(***************************************************************************)
EXTENDS Integers, Sequences, FiniteSets, TLC

VARIABLES
    EXCLUDED_WORDS,   \* the module-level set (main.py:11)
    op,               \* the mining function called last
    texts,            \* its corpus argument
    n, top_k,         \* arguments of extract_ngrams / top_syntactic_structures
    ngrams,           \* value returned by extract_ngrams
    ngram_lemmas,     \* argument of find_sentence_with_ngram
    sent,             \* value returned by find_sentence_with_ngram
    structs,          \* value returned by top_syntactic_structures
    file_path,        \* NLPApp.file_path
    cleaned_df,       \* NLPApp.cleaned_df: None, or the pass that set it
    report_txt,       \* NLPApp.report_txt: "", or the pass that set it
    dep_htmls,        \* NLPApp.dep_htmls: (label, rendering) pairs
    btn_run, btn_save_clean, btn_save_report, btn_save_trees,
    progress,         \* the progress bar's value
    out,              \* the Text widget: "" or "text"
    tree_files,       \* the files save_trees wrote: label -> pass
    clean_file,       \* the file save_cleaned wrote: 0, or the pass of its data
    report_file,      \* the file save_report wrote: 0, or the pass of its text
    th,               \* the worker threads started by the Run button
    started,          \* number of worker threads started
    overlap,          \* history: Run was pressed while a pass was executing
    cleared           \* history: clear_output ran and no pass was started since

appVars == <<file_path, cleaned_df, report_txt, dep_htmls, btn_run, btn_save_clean,
             btn_save_report, btn_save_trees, progress, out, tree_files, clean_file,
             report_file, th, started, overlap, cleared>>

mineVars == <<EXCLUDED_WORDS, op, texts, n, top_k, ngrams, ngram_lemmas, sent, structs>>

-----------------------------------------------------------------------------
(* Bounds of the model *)
MaxWords == 4          \* words in a corpus of the n-gram functions
MaxSynSentences == 4   \* sentences in a corpus of the structure miner
MaxPasses == 2
MaxRank == 1
MaxRows == 1

-----------------------------------------------------------------------------
(* The exclusion dictionary, main.py:11-18 (transliterated) *)
Prepositions == {"v", "na", "s", "po", "iz", "u", "k", "ot", "do", "za", "o", "ob", "so", "izo"}
Conjunctions == {"i", "a", "no", "ili", "libo", "chto", "chtoby", "kak", "potomu", "takzhe"}
GostWords == {"gost", "r", "standart", "iso", "tu", "ost", "snip", "sp", "gn", "rd", "sanpin"}
ExclusionSet == Prepositions \cup Conjunctions \cup GostWords

Range(s) == {s[i] : i \in DOMAIN s}

-----------------------------------------------------------------------------
(* The Annotation Provider (spaCy), as far as the code reads it *)

\* str.lower()
Lower(w) ==
    CASE w = "GOST" -> "gost"
      [] w = "Klapany" -> "klapany"
      [] OTHER -> w

\* Token.lemma_
LemmaOf(w) ==
    CASE w = "Klapany" -> "klapan"
      [] w = "rabotaet" -> "rabotat"
      [] w = "GOST" -> "gost"
      [] OTHER -> w

IsAlpha(w) == w \notin {"57528", ".", " "}
IsPunct(w) == w = "."
IsSpace(w) == w = " "

\* The dependency parses the provider returns for the (stripped) sentences of
\* the structure miner's corpus: per token its label and the position of its
\* head (a root is its own head).
Treebank ==
    [t \in {<<"Klapany", "rabotaet", "nasos">>,
            <<"nasos", "rabotaet", "Klapany">>,
            <<"rabotaet", " ", "nasos">>,
            <<"v", "nasos", ".">>,
            <<".", "nasos", "rabotaet">>,
            <<"rabotaet", "v", "nasos">>} |->
        CASE t = <<"Klapany", "rabotaet", "nasos">> ->
                 <<[dep_ |-> "nsubj", head |-> 2], [dep_ |-> "ROOT", head |-> 2], [dep_ |-> "obj", head |-> 2]>>
          [] t = <<"nasos", "rabotaet", "Klapany">> ->
                 <<[dep_ |-> "obj", head |-> 2], [dep_ |-> "ROOT", head |-> 2], [dep_ |-> "nsubj", head |-> 2]>>
          [] t = <<"rabotaet", " ", "nasos">> ->
                 <<[dep_ |-> "ROOT", head |-> 1], [dep_ |-> "dep", head |-> 1], [dep_ |-> "obj", head |-> 1]>>
          [] t = <<"v", "nasos", ".">> ->
                 <<[dep_ |-> "case", head |-> 2], [dep_ |-> "ROOT", head |-> 2], [dep_ |-> "punct", head |-> 2]>>
          [] t = <<".", "nasos", "rabotaet">> ->
                 <<[dep_ |-> "ROOT", head |-> 1], [dep_ |-> "nsubj", head |-> 3], [dep_ |-> "ROOT", head |-> 3]>>
          [] t = <<"rabotaet", "v", "nasos">> ->
                 <<[dep_ |-> "ROOT", head |-> 1], [dep_ |-> "case", head |-> 3], [dep_ |-> "obl", head |-> 1]>>]

\* Any other text: the first token is the root, the others depend on it.
Parse(text) ==
    IF text \in DOMAIN Treebank
    THEN Treebank[text]
    ELSE [i \in 1..Len(text) |-> [dep_ |-> IF i = 1 THEN "ROOT" ELSE "dep", head |-> 1]]

\* nlp(text): the Doc, a sequence of tokens
nlp(text) ==
    [i \in 1..Len(text) |->
        [text |-> text[i], lemma_ |-> LemmaOf(text[i]),
         is_alpha |-> IsAlpha(text[i]), is_punct |-> IsPunct(text[i]), is_space |-> IsSpace(text[i]),
         dep_ |-> Parse(text)[i].dep_, head |-> Parse(text)[i].head, i |-> i]]

-----------------------------------------------------------------------------
(* remove_gost_phrases, main.py:113-116 *)

IsDigitCode(w) == w = "57528"          \* \d{4,6}
IsLetters(w) == IsAlpha(w)            \* [a-zA-Z and Cyrillic]*

\* re.sub of the pattern from word i on: "gost", then optionally one word of
\* letters (possibly none) followed by a 4-6 digit code.  The whitespace
\* around a removed span stays: an extra-whitespace token takes its place.
RECURSIVE GostSub(_, _)
GostSub(text, i) ==
    IF i > Len(text) THEN <<>>
    ELSE IF Lower(text[i]) = "gost"
         THEN IF i + 1 <= Len(text) /\ IsDigitCode(text[i + 1])
              THEN <<" ">> \o GostSub(text, i + 2)
              ELSE IF i + 2 <= Len(text) /\ IsLetters(text[i + 1]) /\ IsDigitCode(text[i + 2])
                   THEN <<" ">> \o GostSub(text, i + 3)
                   ELSE <<" ">> \o GostSub(text, i + 1)
         ELSE <<text[i]>> \o GostSub(text, i + 1)

\* adjacent whitespace runs are one run
RECURSIVE Squeeze(_)
Squeeze(text) ==
    IF Len(text) < 2 THEN text
    ELSE IF IsSpace(text[1]) /\ IsSpace(text[2]) THEN Squeeze(Tail(text))
    ELSE <<Head(text)>> \o Squeeze(Tail(text))

\* str.strip()
RECURSIVE Strip(_)
Strip(text) ==
    IF text = <<>> THEN <<>>
    ELSE IF IsSpace(Head(text)) THEN Strip(Tail(text))
    ELSE IF IsSpace(text[Len(text)]) THEN Strip(SubSeq(text, 1, Len(text) - 1))
    ELSE text

remove_gost_phrases(text) == Strip(Squeeze(GostSub(text, 1)))

-----------------------------------------------------------------------------
(* collections.Counter: the keys in first-insertion order with their counts *)

HasKey(c, key) == \E j \in DOMAIN c : c[j].key = key

\* counts[key] += 1
CounterInc(c, key) ==
    IF HasKey(c, key)
    THEN [j \in DOMAIN c |-> IF c[j].key = key THEN [c[j] EXCEPT !.cnt = @ + 1] ELSE c[j]]
    ELSE Append(c, [key |-> key, cnt |-> 1])

RemoveAt(s, m) == SubSeq(s, 1, m - 1) \o SubSeq(s, m + 1, Len(s))

\* the first item with the largest count
FirstMax_Last(c) ==
    CHOOSE m \in DOMAIN c :
        /\ \A j \in DOMAIN c : c[j].cnt <= c[m].cnt
        /\ \A j \in (m + 1)..Len(c) : c[j].cnt < c[m].cnt
FirstMax(c) ==
    CHOOSE m \in DOMAIN c :
        /\ \A j \in DOMAIN c : c[j].cnt <= c[m].cnt
        /\ \A j \in 1..(m - 1) : c[j].cnt < c[m].cnt

\* Counter.most_common(k): sorted by count, descending, stable; the first k
RECURSIVE most_common(_, _)
most_common(c, k) ==
    IF k <= 0 \/ c = <<>> THEN <<>>
    ELSE LET m == FirstMax(c) IN <<c[m]>> \o most_common(RemoveAt(c, m), k - 1)

-----------------------------------------------------------------------------
(* extract_ngrams, main.py:60-83 *)

\* the test `in EXCLUDED_WORDS` (lines 67, 68, 76, 151)
IsExcluded_NoGostWords(w) == w \in (EXCLUDED_WORDS \ GostWords)
IsExcluded(w) == w \in EXCLUDED_WORDS

\* the condition of the comprehensions at lines 67-68 and 151
KeepToken(t) == t.is_alpha /\ ~IsExcluded(Lower(t.lemma_))

\* lemmas, line 67
Lemmas(doc) ==
    LET kept == SelectSeq(doc, KeepToken) IN [i \in DOMAIN kept |-> Lower(kept[i].lemma_)]

\* tokens, line 68
Tokens(doc) ==
    LET kept == SelectSeq(doc, KeepToken) IN [i \in DOMAIN kept |-> Lower(kept[i].text)]

\* the per-window check, line 76
WindowAccepted_Never(gram) == \E w \in Range(gram) : IsExcluded(w)
WindowAccepted(gram) == ~(\E w \in Range(gram) : IsExcluded(w))

\* the loop over the windows of one text, lines 71-80; acc holds counts and
\* examples; an example is the window of surface words (joined by spaces)
RECURSIVE NgramLoop(_, _, _, _, _)
NgramLoop(acc, lemmas, tokens, nn, i) ==
    IF i > Len(lemmas) - nn + 1 THEN acc
    ELSE LET ngram_l == SubSeq(lemmas, i, i + nn - 1)
             ngram_text == SubSeq(tokens, i, i + nn - 1)
             acc2 == IF WindowAccepted(ngram_l)
                     THEN [counts |-> CounterInc(acc.counts, ngram_l),
                           examples |-> IF ngram_l \in DOMAIN acc.examples
                                        THEN acc.examples
                                        ELSE acc.examples @@ (ngram_l :> ngram_text)]
                     ELSE acc
         IN NgramLoop(acc2, lemmas, tokens, nn, i + 1)

\* the loop over the texts, lines 64-80
RECURSIVE TextLoop(_, _, _, _)
TextLoop(acc, txts, nn, j) ==
    IF j > Len(txts) THEN acc
    ELSE LET doc == nlp(txts[j])
         IN TextLoop(NgramLoop(acc, Lemmas(doc), Tokens(doc), nn, 1), txts, nn, j + 1)

extract_ngrams(txts, nn, k) ==
    LET acc == TextLoop([counts |-> <<>>, examples |-> <<>>], txts, nn, 1)
        top == most_common(acc.counts, k)
    IN [r \in DOMAIN top |-> <<top[r].key, top[r].cnt, acc.examples[top[r].key]>>]

-----------------------------------------------------------------------------
(* find_sentence_with_ngram, main.py:146-155 *)

None == [found |-> FALSE, value |-> <<>>]
Some(s) == [found |-> TRUE, value |-> s]

HasWindow(lemmas, key) ==
    \E i \in 1..(Len(lemmas) - Len(key) + 1) : SubSeq(lemmas, i, i + Len(key) - 1) = key

RECURSIVE FindLoop(_, _, _)
FindLoop(sentences, key, j) ==
    IF j > Len(sentences) THEN None
    ELSE LET s == remove_gost_phrases(sentences[j])
         IN IF HasWindow(Lemmas(nlp(s)), key) THEN Some(s) ELSE FindLoop(sentences, key, j + 1)

find_sentence_with_ngram(sentences, key) == FindLoop(sentences, key, 1)

-----------------------------------------------------------------------------
(* clause_dep_signature, main.py:96-109 *)

excluded_deps == {"det", "case", "punct"}

\* children.sort(key=lambda t: t.i)
RECURSIVE SortByI(_)
SortByI(S) ==
    IF S = {} THEN <<>>
    ELSE LET m == CHOOSE x \in S : \A y \in S : x <= y IN <<m>> \o SortByI(S \ {m})

\* root_token.children without punctuation and whitespace, lines 100-101
Children_WithPunct(doc, root) ==
    {i \in DOMAIN doc : i # root /\ doc[i].head = root}
Children(doc, root) ==
    {i \in DOMAIN doc : i # root /\ doc[i].head = root /\ ~doc[i].is_punct /\ ~doc[i].is_space}

clause_dep_signature(doc, root) ==
    LET children == SortByI(Children(doc, root))
        kept == SelectSeq(children, LAMBDA i : doc[i].dep_ \notin excluded_deps)
    IN <<doc[root].dep_>> \o [j \in DOMAIN kept |-> doc[kept[j]].dep_]

-----------------------------------------------------------------------------
(* top_syntactic_structures, main.py:120-137 *)

\* the generator at line 130, in document order
Roots(doc) == SortByI({i \in DOMAIN doc : doc[i].dep_ = "ROOT" /\ ~doc[i].is_punct})

\* lines 130-135 for the roots of one document
RECURSIVE RootLoop(_, _, _, _, _)
RootLoop(acc, s, doc, roots, i) ==
    IF i > Len(roots) THEN acc
    ELSE LET sig == clause_dep_signature(doc, roots[i])
             acc2 == IF Len(sig) < 2 THEN acc
                     ELSE [counts |-> CounterInc(acc.counts, sig),
                           examples |-> IF sig \in DOMAIN acc.examples
                                        THEN acc.examples
                                        ELSE acc.examples @@ (sig :> <<s, doc>>)]
         IN RootLoop(acc2, s, doc, roots, i + 1)

\* lines 126-135
RECURSIVE SentLoop(_, _, _)
SentLoop(acc, sentences, j) ==
    IF j > Len(sentences) THEN acc
    ELSE LET s == remove_gost_phrases(sentences[j])
             doc == nlp(s)
         IN SentLoop(RootLoop(acc, s, doc, Roots(doc), 1), sentences, j + 1)

top_syntactic_structures(sentences, top_n) ==
    LET acc == SentLoop([counts |-> <<>>, examples |-> <<>>], sentences, 1)
        top == most_common(acc.counts, top_n)
    IN [r \in DOMAIN top |->
          <<top[r].key, top[r].cnt, acc.examples[top[r].key][1], acc.examples[top[r].key][2]>>]

-----------------------------------------------------------------------------
(* Calls of the mining functions on bounded corpora *)

\* the default and the only value analyze passes for top_k and top_n, and the
\* largest n it passes
TOP_K == 3
MaxN == 3

LexWords == {"Klapany", "nasos", "GOST", "57528"}

\* the corpora of non-empty texts with w words in all
RECURSIVE CorporaOfSize(_)
CorporaOfSize(w) ==
    IF w = 0 THEN {<<>>}
    ELSE UNION {{<<t>> \o c : t \in [1..l -> LexWords], c \in CorporaOfSize(w - l)} : l \in 1..w}

LexCorpora == UNION {CorporaOfSize(w) : w \in 0..MaxWords}

SynTexts ==
    {<<"Klapany", "rabotaet", "nasos">>,
     <<"nasos", "rabotaet", "Klapany">>,
     <<"GOST", "57528", "rabotaet", " ", "nasos">>,
     <<"v", "nasos", ".">>,
     <<".", "nasos", "rabotaet">>,
     <<"rabotaet", "v", "nasos">>}
SynCorpora == UNION {[1..m -> SynTexts] : m \in 0..MaxSynSentences}

\* no mining function called yet
MineIdle ==
    /\ EXCLUDED_WORDS = ExclusionSet
    /\ op = "none"
    /\ n = 0
    /\ top_k = 0
    /\ ngrams = <<>>
    /\ ngram_lemmas = <<>>
    /\ sent = None
    /\ structs = <<>>

Call_extract_ngrams ==
    /\ op = "none"
    /\ \A j \in DOMAIN texts : Range(texts[j]) \subseteq LexWords
    /\ \E nn \in 1..MaxN, k \in 0..TOP_K :
         /\ n' = nn
         /\ top_k' = k
         /\ ngrams' = extract_ngrams(texts, nn, k)
    /\ op' = "extract_ngrams"
    /\ UNCHANGED appVars
    /\ UNCHANGED <<EXCLUDED_WORDS, texts, ngram_lemmas, sent, structs>>

\* as analyze calls it (lines 285, 297): with a key extract_ngrams returned
Call_find_sentence_with_ngram ==
    /\ op = "extract_ngrams"
    /\ \E r \in DOMAIN ngrams :
         /\ ngram_lemmas' = ngrams[r][1]
         /\ sent' = find_sentence_with_ngram(texts, ngrams[r][1])
    /\ op' = "find_sentence_with_ngram"
    /\ UNCHANGED appVars
    /\ UNCHANGED <<EXCLUDED_WORDS, texts, n, top_k, ngrams, structs>>

Call_top_syntactic_structures ==
    /\ op = "none"
    /\ \A j \in DOMAIN texts : texts[j] \in SynTexts
    /\ \E k \in 0..TOP_K :
         /\ top_k' = k
         /\ structs' = top_syntactic_structures(texts, k)
    /\ op' = "top_syntactic_structures"
    /\ UNCHANGED appVars
    /\ UNCHANGED <<EXCLUDED_WORDS, texts, n, ngrams, ngram_lemmas, sent>>

MineNext ==
    \/ Call_top_syntactic_structures
    \/ Call_extract_ngrams
    \/ Call_find_sentence_with_ngram

-----------------------------------------------------------------------------
(* NLPApp, main.py:161-386.  The handlers of the buttons run on the Tk main  *)
(* thread, one at a time; every press of Run starts a worker thread that     *)
(* executes analyze (line 187), and the worker's statements interleave with  *)
(* the handlers and with other workers.                                      *)

NoFile == ""
Passes == 1..MaxPasses

IdleThread == [pc |-> "idle", rows |-> -1, idx |-> 1, exc |-> "none"]

\* NLPApp.__init__ and _build_ui, lines 163-206
AppInit ==
    /\ file_path = NoFile
    /\ cleaned_df = 0
    /\ report_txt = 0
    /\ dep_htmls = <<>>
    /\ btn_run = "disabled"
    /\ btn_save_clean = "disabled"
    /\ btn_save_report = "disabled"
    /\ btn_save_trees = "disabled"
    /\ progress = 0
    /\ out = ""
    /\ tree_files = <<>>
    /\ clean_file = 0
    /\ report_file = 0
    /\ th = [t \in Passes |-> IdleThread]
    /\ started = 0
    /\ overlap = FALSE
    /\ cleared = FALSE

Running(t) == th[t].pc \notin {"idle", "done", "failed"}

\* load_file, lines 221-226: the dialog returns a path or "" (cancelled)
load_file ==
    /\ \E path \in {NoFile, "data.xlsx"} :
         IF path # NoFile
         THEN /\ file_path' = path
              /\ btn_run' = "normal"
              /\ out' = "text"
         ELSE UNCHANGED <<file_path, btn_run, out>>
    /\ UNCHANGED <<mineVars, clean_file, report_file>>
    /\ UNCHANGED <<cleaned_df, report_txt, dep_htmls, btn_save_clean, btn_save_report,
                   btn_save_trees, progress, tree_files, th, started, overlap, cleared>>

\* the command of btn_run, line 187: start a thread whose target is analyze
press_run ==
    /\ btn_run = "normal"
    /\ started < MaxPasses
    /\ started' = started + 1
    /\ th' = [th EXCEPT ![started + 1] = [IdleThread EXCEPT !.pc = "start"]]
    /\ overlap' = (overlap \/ \E t \in Passes : Running(t))
    /\ cleared' = FALSE
    /\ UNCHANGED <<mineVars, clean_file, report_file>>
    /\ UNCHANGED <<file_path, cleaned_df, report_txt, dep_htmls, btn_run, btn_save_clean,
                   btn_save_report, btn_save_trees, progress, out, tree_files>>

\* clear_output, lines 343-352
clear_output ==
    /\ out' = ""
    /\ progress' = 0
    /\ cleaned_df' = 0
    /\ report_txt' = 0
    /\ dep_htmls' = <<>>
    /\ btn_save_clean' = "disabled"
    /\ btn_save_report' = "disabled"
    /\ btn_save_trees' = "disabled"
    /\ cleared' = TRUE
    /\ UNCHANGED <<mineVars, clean_file, report_file>>
    /\ UNCHANGED <<file_path, btn_run, tree_files, th, started, overlap>>

\* the files written by the loop at lines 382-385: a later pair with the same
\* label overwrites the file of an earlier one
RECURSIVE WriteTrees(_, _, _)
WriteTrees(files, htmls, i) ==
    IF i > Len(htmls) THEN files
    ELSE WriteTrees([l \in DOMAIN files \cup {htmls[i].label} |->
                        IF l = htmls[i].label THEN htmls[i].pass ELSE files[l]],
                    htmls, i + 1)

\* save_trees, lines 376-386: the command of btn_save_trees; the directory
\* dialog returns a directory or nothing
save_trees ==
    /\ btn_save_trees = "normal"
    /\ \E chosen \in BOOLEAN :
         IF dep_htmls # <<>> /\ chosen
         THEN tree_files' = WriteTrees(tree_files, dep_htmls, 1)
         ELSE UNCHANGED tree_files
    /\ UNCHANGED <<mineVars, clean_file, report_file>>
    /\ UNCHANGED <<file_path, cleaned_df, report_txt, dep_htmls, btn_run, btn_save_clean,
                   btn_save_report, btn_save_trees, progress, out, th, started, overlap, cleared>>

\* save_cleaned, lines 355-362
save_cleaned ==
    /\ btn_save_clean = "normal"
    /\ \E chosen \in BOOLEAN :
         IF cleaned_df # 0 /\ chosen
         THEN clean_file' = cleaned_df
         ELSE UNCHANGED clean_file
    /\ UNCHANGED <<mineVars, report_file, tree_files>>
    /\ UNCHANGED <<file_path, cleaned_df, report_txt, dep_htmls, btn_run, btn_save_clean,
                   btn_save_report, btn_save_trees, progress, out, th, started, overlap, cleared>>

\* save_report, lines 365-373
save_report ==
    /\ btn_save_report = "normal"
    /\ \E chosen \in BOOLEAN :
         IF report_txt # 0 /\ chosen
         THEN report_file' = report_txt
         ELSE UNCHANGED report_file
    /\ UNCHANGED <<mineVars, clean_file, tree_files>>
    /\ UNCHANGED <<file_path, cleaned_df, report_txt, dep_htmls, btn_run, btn_save_clean,
                   btn_save_report, btn_save_trees, progress, out, th, started, overlap, cleared>>

sharedButThreads == <<file_path, cleaned_df, report_txt, dep_htmls, btn_run, btn_save_clean,
                      btn_save_report, btn_save_trees, progress, out, tree_files, started,
                      overlap, cleared>>

Goto(t, pc) == th' = [th EXCEPT ![t].pc = pc]
Raise(t, exc) == th' = [th EXCEPT ![t].pc = "except", ![t].exc = exc]

\* analyze, line 230: if not self.file_path: return
analyze_start(t) ==
    /\ th[t].pc = "start"
    /\ IF file_path = NoFile THEN Goto(t, "done") ELSE Goto(t, "read")
    /\ UNCHANGED <<mineVars, clean_file, report_file>>
    /\ UNCHANGED sharedButThreads

\* lines 234-247: read the file, clean and filter the rows; the number of rows
\* that survive is an input; reading or parsing may raise
analyze_read(t) ==
    /\ th[t].pc = "read"
    /\ out' = "text"
    /\ \/ /\ Raise(t, "external")
          /\ progress' = 0
       \/ /\ \E rows \in 0..MaxRows : th' = [th EXCEPT ![t].pc = "stats", ![t].rows = rows]
          /\ progress' = 15
    /\ UNCHANGED <<mineVars, clean_file, report_file>>
    /\ UNCHANGED <<file_path, cleaned_df, report_txt, dep_htmls, btn_run, btn_save_clean,
                   btn_save_report, btn_save_trees, tree_files, started, overlap, cleared>>

\* lines 250-255: a, b = zip(*series.map(basic_stats)) raises ValueError when
\* the series is empty (zip of nothing yields nothing to unpack)
analyze_stats(t) ==
    /\ th[t].pc = "stats"
    /\ out' = "text"
    /\ IF th[t].rows = 0
       THEN /\ Raise(t, "ValueError")
            /\ UNCHANGED progress
       ELSE /\ Goto(t, "mine")
            /\ progress' = 30
    /\ UNCHANGED <<mineVars, clean_file, report_file>>
    /\ UNCHANGED <<file_path, cleaned_df, report_txt, dep_htmls, btn_run, btn_save_clean,
                   btn_save_report, btn_save_trees, tree_files, started, overlap, cleared>>

\* lines 258-267: extract_ngrams twice and top_syntactic_structures, into
\* locals; the provider may raise
analyze_mine(t) ==
    /\ th[t].pc = "mine"
    /\ out' = "text"
    /\ \/ /\ Raise(t, "external")
          /\ progress' \in {30, 50}
       \/ /\ Goto(t, "clear")
          /\ progress' = 65
    /\ UNCHANGED <<mineVars, clean_file, report_file>>
    /\ UNCHANGED <<file_path, cleaned_df, report_txt, dep_htmls, btn_run, btn_save_clean,
                   btn_save_report, btn_save_trees, tree_files, started, overlap, cleared>>

\* line 270: self.dep_htmls.clear()
analyze_clear(t) ==
    /\ th[t].pc = "clear"
    /\ dep_htmls' = <<>>
    /\ th' = [th EXCEPT ![t].pc = "bigrams", ![t].idx = 1]
    /\ UNCHANGED <<mineVars, clean_file, report_file>>
    /\ UNCHANGED <<file_path, cleaned_df, report_txt, btn_run, btn_save_clean,
                   btn_save_report, btn_save_trees, progress, out, tree_files, started,
                   overlap, cleared>>

Rendering(kind, t) == [label |-> <<kind, th[t].idx>>, pass |-> t]

\* one iteration of a loop over the top n-grams (lines 282-291, 295-302), or
\* its end: find_sentence_with_ngram may return None, nlp or displacy.render
\* may raise, otherwise the rendering is appended
NgramReportLoop(t, kind, next) ==
    \/ /\ th' = [th EXCEPT ![t].pc = next, ![t].idx = 1]
       /\ UNCHANGED dep_htmls
    \/ /\ th[t].idx <= MaxRank
       /\ \/ /\ th' = [th EXCEPT ![t].idx = @ + 1]
             /\ UNCHANGED dep_htmls
          \/ /\ th' = [th EXCEPT ![t].idx = @ + 1]
             /\ dep_htmls' = Append(dep_htmls, Rendering(kind, t))
          \/ /\ Raise(t, "external")
             /\ UNCHANGED dep_htmls

\* the loop over the top bigrams (lines 282-291)
analyze_bigrams(t) ==
    /\ th[t].pc = "bigrams"
    /\ NgramReportLoop(t, "bigram", "trigrams")
    /\ UNCHANGED <<mineVars, clean_file, report_file>>
    /\ UNCHANGED <<file_path, cleaned_df, report_txt, btn_run, btn_save_clean,
                   btn_save_report, btn_save_trees, progress, out, tree_files, started,
                   overlap, cleared>>

\* the loop over the top trigrams (lines 295-302)
analyze_trigrams(t) ==
    /\ th[t].pc = "trigrams"
    /\ NgramReportLoop(t, "trigram", "structs")
    /\ UNCHANGED <<mineVars, clean_file, report_file>>
    /\ UNCHANGED <<file_path, cleaned_df, report_txt, btn_run, btn_save_clean,
                   btn_save_report, btn_save_trees, progress, out, tree_files, started,
                   overlap, cleared>>

\* one iteration of the loop over the top structures (lines 305-320), or its end
analyze_structs(t) ==
    /\ th[t].pc = "structs"
    /\ \/ /\ Goto(t, "report")
          /\ UNCHANGED dep_htmls
       \/ /\ th[t].idx <= MaxRank
          /\ \/ /\ th' = [th EXCEPT ![t].idx = @ + 1]
                /\ dep_htmls' = Append(dep_htmls, Rendering("struct", t))
             \/ /\ Raise(t, "external")
                /\ UNCHANGED dep_htmls
    /\ UNCHANGED <<mineVars, clean_file, report_file>>
    /\ UNCHANGED <<file_path, cleaned_df, report_txt, btn_run, btn_save_clean,
                   btn_save_report, btn_save_trees, progress, out, tree_files, started,
                   overlap, cleared>>

\* lines 323-325
analyze_report(t) ==
    /\ th[t].pc = "report"
    /\ report_txt' = t
    /\ out' = "text"
    /\ Goto(t, "df")
    /\ UNCHANGED <<mineVars, clean_file, report_file>>
    /\ UNCHANGED <<file_path, cleaned_df, dep_htmls, btn_run, btn_save_clean,
                   btn_save_report, btn_save_trees, progress, tree_files, started,
                   overlap, cleared>>

\* line 328
analyze_df(t) ==
    /\ th[t].pc = "df"
    /\ cleaned_df' = t
    /\ Goto(t, "buttons")
    /\ UNCHANGED <<mineVars, clean_file, report_file>>
    /\ UNCHANGED <<file_path, report_txt, dep_htmls, btn_run, btn_save_clean,
                   btn_save_report, btn_save_trees, progress, out, tree_files, started,
                   overlap, cleared>>

\* lines 330-333
analyze_buttons(t) ==
    /\ th[t].pc = "buttons"
    /\ btn_save_clean' = "normal"
    /\ btn_save_report' = "normal"
    /\ btn_save_trees' = IF dep_htmls # <<>> THEN "normal" ELSE btn_save_trees
    /\ Goto(t, "finish")
    /\ UNCHANGED <<mineVars, clean_file, report_file>>
    /\ UNCHANGED <<file_path, cleaned_df, report_txt, dep_htmls, btn_run, progress, out,
                   tree_files, started, overlap, cleared>>

\* line 334
analyze_finish(t) ==
    /\ th[t].pc = "finish"
    /\ progress' = 100
    /\ Goto(t, "done")
    /\ UNCHANGED <<mineVars, clean_file, report_file>>
    /\ UNCHANGED <<file_path, cleaned_df, report_txt, dep_htmls, btn_run, btn_save_clean,
                   btn_save_report, btn_save_trees, out, tree_files, started, overlap, cleared>>

\* the handler at lines 336-340
analyze_except(t) ==
    /\ th[t].pc = "except"
    /\ out' = "text"
    /\ progress' = 0
    /\ Goto(t, "failed")
    /\ UNCHANGED <<mineVars, clean_file, report_file>>
    /\ UNCHANGED <<file_path, cleaned_df, report_txt, dep_htmls, btn_run, btn_save_clean,
                   btn_save_report, btn_save_trees, tree_files, started, overlap, cleared>>

AppNext ==
    \/ load_file
    \/ press_run
    \/ clear_output
    \/ save_cleaned
    \/ save_report
    \/ save_trees
    \/ \E t \in Passes : analyze_start(t)
    \/ \E t \in Passes : analyze_read(t)
    \/ \E t \in Passes : analyze_stats(t)
    \/ \E t \in Passes : analyze_mine(t)
    \/ \E t \in Passes : analyze_clear(t)
    \/ \E t \in Passes : analyze_bigrams(t)
    \/ \E t \in Passes : analyze_trigrams(t)
    \/ \E t \in Passes : analyze_structs(t)
    \/ \E t \in Passes : analyze_report(t)
    \/ \E t \in Passes : analyze_df(t)
    \/ \E t \in Passes : analyze_buttons(t)
    \/ \E t \in Passes : analyze_finish(t)
    \/ \E t \in Passes : analyze_except(t)

-----------------------------------------------------------------------------
vars == <<mineVars, appVars>>

\* the mining functions called on a corpus drawn from the bounded corpora
MineInit ==
    /\ AppInit
    /\ MineIdle
    /\ texts \in LexCorpora \cup SynCorpora

SpecMine == MineInit /\ [][MineNext]_vars

\* a session of the application
Init == AppInit /\ MineIdle /\ texts = <<>>
SpecApp == Init /\ [][AppNext]_vars

-----------------------------------------------------------------------------
(* Properties of the mining functions *)

\* The lemma sequence of a text restricted to alphabetic tokens whose lemma
\* is outside the dictionary, stated from the token attributes.
FilteredLemmaSeq(text) ==
    LET pos == {i \in DOMAIN text : IsAlpha(text[i]) /\ Lower(LemmaOf(text[i])) \notin ExclusionSet}
    IN [r \in 1..Cardinality(pos) |->
          LET i == CHOOSE x \in pos : Cardinality({y \in pos : y <= x}) = r
          IN Lower(LemmaOf(text[i]))]

\* <<j, i>>: the window of length Len(key) at position i of the filtered
\* lemma sequence of text j is key
LexOcc(key) ==
    UNION {LET l == FilteredLemmaSeq(texts[j])
           IN {<<j, i>> : i \in {x \in 1..(Len(l) - Len(key) + 1) : SubSeq(l, x, x + Len(key) - 1) = key}} :
           j \in DOMAIN texts}

AllLexKeys ==
    UNION {LET l == FilteredLemmaSeq(texts[j])
           IN {SubSeq(l, i, i + n - 1) : i \in 1..(Len(l) - n + 1)} : j \in DOMAIN texts}

\* the parse top_syntactic_structures works on for sentence j
SynDoc(j) == nlp(remove_gost_phrases(texts[j]))

QualChildren(doc, root) ==
    {i \in DOMAIN doc : /\ i # root
                        /\ doc[i].head = root
                        /\ ~doc[i].is_punct
                        /\ ~doc[i].is_space
                        /\ doc[i].dep_ \notin {"det", "case", "punct"}}

\* sig is the root's label followed by the labels of its qualifying children
\* in ascending position
IsSignatureOf(sig, doc, root) ==
    LET q == QualChildren(doc, root)
    IN /\ Len(sig) = 1 + Cardinality(q)
       /\ sig[1] = doc[root].dep_
       /\ \A i \in q : sig[1 + Cardinality({j \in q : j <= i})] = doc[i].dep_

IsRoot(doc, i) == doc[i].dep_ = "ROOT" /\ ~doc[i].is_punct

\* <<j, i>>: token i of sentence j is a root whose signature is sig
SynOcc(sig) ==
    UNION {LET doc == SynDoc(j)
           IN {<<j, i>> : i \in {x \in DOMAIN doc : IsRoot(doc, x) /\ IsSignatureOf(sig, doc, x)}} :
           j \in DOMAIN texts}

AllSynKeys ==
    UNION {{clause_dep_signature(SynDoc(j), i) : i \in {x \in DOMAIN SynDoc(j) : IsRoot(SynDoc(j), x)}} :
           j \in DOMAIN texts}

Before(p, q) == p[1] < q[1] \/ (p[1] = q[1] /\ p[2] < q[2])
FirstOcc(S) == CHOOSE p \in S : \A q \in S : p = q \/ Before(p, q)

\* res lists at most k keys by non-increasing number of occurrences, ties in
\* the order of first occurrence, and leaves res no key with more
\* occurrences than one it lists
Ranked(res, Occ(_), keys, k) ==
    /\ Len(res) <= k
    /\ \A r \in DOMAIN res : res[r][2] = Cardinality(Occ(res[r][1])) /\ res[r][2] >= 1
    /\ \A r, s \in DOMAIN res :
         r < s => \/ res[r][2] > res[s][2]
                  \/ /\ res[r][2] = res[s][2]
                     /\ Before(FirstOcc(Occ(res[r][1])), FirstOcc(Occ(res[s][1])))
    /\ \A key \in keys \ {res[r][1] : r \in DOMAIN res} :
         \A r \in DOMAIN res : Cardinality(Occ(key)) <= res[r][2]

OutKeys(res) == {res[r][1] : r \in DOMAIN res}

\* C4: every lemma_key returned by extract_ngrams contains no word of the
\* exclusion dictionary, and no operation modifies the dictionary.
C4_NoExcludedLemma ==
    /\ EXCLUDED_WORDS = ExclusionSet
    /\ \A r \in DOMAIN ngrams : \A i \in DOMAIN ngrams[r][1] : ngrams[r][1][i] \notin ExclusionSet

\* extract_ngrams returned records for a corpus that holds a dictionary word
C4_Witness ==
    /\ op = "extract_ngrams"
    /\ ngrams # <<>>
    /\ \E j \in DOMAIN texts : \E i \in DOMAIN texts[j] : Lower(LemmaOf(texts[j][i])) \in ExclusionSet

\* C5: the outputs of extract_ngrams and top_syntactic_structures hold at most
\* top_k records in non-increasing order of count, of two keys with equal
\* count the one first observed earlier in the corpus comes first, and no key
\* left out has a larger count than a key listed.
C5_Ranking ==
    /\ op \in {"extract_ngrams", "find_sentence_with_ngram"} =>
          Ranked(ngrams, LexOcc, AllLexKeys, top_k)
    /\ op = "top_syntactic_structures" =>
          Ranked(structs, SynOcc, {sg \in AllSynKeys : Len(sg) >= 2}, top_k)

\* top_syntactic_structures cut its list at top_k: the first record has the
\* largest count although its signature was observed after the second's, and
\* a signature tied with the second but observed later is left out
C5_Witness ==
    /\ op = "top_syntactic_structures"
    /\ Len(structs) = 2
    /\ top_k = 2
    /\ structs[1][2] > structs[2][2]
    /\ Before(FirstOcc(SynOcc(structs[2][1])), FirstOcc(SynOcc(structs[1][1])))
    /\ \E key \in AllSynKeys \ OutKeys(structs) : Cardinality(SynOcc(key)) = structs[2][2]

\* extract_ngrams listed the more frequent n-gram first although it was
\* observed after the other
C5_WitnessLex ==
    /\ op = "extract_ngrams"
    /\ Len(ngrams) >= 2
    /\ ngrams[1][2] > ngrams[2][2]
    /\ Before(FirstOcc(LexOcc(ngrams[2][1])), FirstOcc(LexOcc(ngrams[1][1])))

\* extract_ngrams listed two n-grams of equal count
C5_WitnessTie ==
    /\ op = "extract_ngrams"
    /\ Len(ngrams) >= 2
    /\ ngrams[1][2] = ngrams[2][2]

\* tokens p..p+n-1 of text j, adjacent in the sentence itself, are alphabetic,
\* outside the dictionary, and their lemmas are key
TrulyContiguous(key, j, p) ==
    /\ p + Len(key) - 1 <= Len(texts[j])
    /\ \A i \in 1..Len(key) :
         /\ IsAlpha(texts[j][p + i - 1])
         /\ Lower(LemmaOf(texts[j][p + i - 1])) \notin ExclusionSet
         /\ Lower(LemmaOf(texts[j][p + i - 1])) = key[i]

\* C7 (as stated): extract_ngrams counts only n-grams whose lemmas are adjacent
\* in a sentence; an n-gram that is never contiguous in any sentence is absent
\* from the output.
C7_OnlyTrulyContiguous ==
    \A r \in DOMAIN ngrams :
        \E j \in DOMAIN texts : \E p \in DOMAIN texts[j] : TrulyContiguous(ngrams[r][1], j, p)

\* C7 (amended): extract_ngrams counts every window of n adjacent elements of
\* the filtered lemma sequence (the per-window check rejects none), so a key
\* is listed only if it is such a window, with the number of such windows as
\* its count, and top_k alone limits the list.
C7_FilteredContiguous ==
    op \in {"extract_ngrams", "find_sentence_with_ngram"} =>
        /\ \A r \in DOMAIN ngrams :
             /\ LexOcc(ngrams[r][1]) # {}
             /\ ngrams[r][2] = Cardinality(LexOcc(ngrams[r][1]))
        /\ Len(ngrams) = IF top_k < Cardinality(AllLexKeys) THEN top_k ELSE Cardinality(AllLexKeys)

\* a listed n-gram whose lemmas are nowhere adjacent in a sentence: only
\* filtered-out tokens lie between them
C7_Witness ==
    /\ op = "extract_ngrams"
    /\ \E r \in DOMAIN ngrams :
         ~(\E j \in DOMAIN texts : \E p \in DOMAIN texts[j] : TrulyContiguous(ngrams[r][1], j, p))

\* C1: find_sentence_with_ngram, given a lemma_key that extract_ngrams
\* returned for the same corpus, returns a sentence, never None.
C1_RoundTrip ==
    op = "find_sentence_with_ngram" => sent.found

\* C6: find_sentence_with_ngram returns the original text of the first
\* sentence whose filtered lemma sequence, computed after stripping, has
\* lemma_key as a window, and None if and only if there is no such sentence.
C6_FirstOriginalSentence ==
    op = "find_sentence_with_ngram" =>
        LET matches == {j \in DOMAIN texts :
                          HasWindow(FilteredLemmaSeq(remove_gost_phrases(texts[j])), ngram_lemmas)}
        IN IF matches = {}
           THEN sent = None
           ELSE sent = Some(texts[CHOOSE j \in matches : \A m \in matches : j <= m])

\* C8: every signature top_syntactic_structures returns has at least two
\* labels: the root's own label, then the labels of the root's direct
\* children that are neither punctuation nor whitespace, in ascending
\* position, none of them det, case or punct; its count is the number of
\* roots with that signature, so a root with a shorter signature counts
\* nowhere.
C8_Signatures ==
    op = "top_syntactic_structures" =>
        \A r \in DOMAIN structs :
            LET sig == structs[r][1]
                doc == structs[r][4]
            IN /\ Len(sig) >= 2
               /\ \E root \in DOMAIN doc : IsRoot(doc, root) /\ IsSignatureOf(sig, doc, root)
               /\ \A i \in 2..Len(sig) : sig[i] \notin {"det", "case", "punct"}
               /\ structs[r][2] = Cardinality(SynOcc(sig))

\* a corpus with a root whose signature is too short, one with a whitespace
\* child, and a listed signature of three labels
C8_Witness ==
    /\ op = "top_syntactic_structures"
    /\ \E r \in DOMAIN structs : Len(structs[r][1]) = 3
    /\ \E j \in DOMAIN texts : \E i \in DOMAIN SynDoc(j) :
         IsRoot(SynDoc(j), i) /\ Len(clause_dep_signature(SynDoc(j), i)) < 2
    /\ \E j \in DOMAIN texts : \E i \in DOMAIN SynDoc(j) : SynDoc(j)[i].is_space

-----------------------------------------------------------------------------
(* Properties of the session *)

SaveEnabled ==
    btn_save_clean = "normal" \/ btn_save_report = "normal" \/ btn_save_trees = "normal"

\* C2: a pass whose corpus is empty after cleaning and filtering completes
\* without entering the error branch (no failure of the file or the provider
\* being involved).
C2_EmptyCorpusNoError ==
    \A t \in Passes :
        th[t].rows = 0 /\ th[t].exc # "external" => th[t].pc \notin {"except", "failed"}

\* C3: after a pass has failed, nothing exposed for display or export holds
\* results of that pass: not report_txt, not cleaned_df, and dep_htmls holds
\* no rendering of it while the button that saves the renderings is enabled
\* (stated for sessions in which no two passes ever ran at the same time).
C3_AllOrNothing ==
    ~overlap =>
        \A t \in Passes :
            th[t].pc = "failed" =>
                /\ report_txt # t
                /\ cleaned_df # t
                /\ btn_save_trees = "normal" => \A i \in DOMAIN dep_htmls : dep_htmls[i].pass # t

\* C9: when a pass completes successfully, dep_htmls holds only renderings of
\* that pass, with pairwise distinct labels, and report_txt and cleaned_df do
\* not come from another pass.
C9_PassesDoNotOverlap ==
    [][\A t \in Passes :
          th[t].pc = "finish" /\ th'[t].pc = "done" =>
              /\ \A i \in DOMAIN dep_htmls' : dep_htmls'[i].pass = t
              /\ \A i, j \in DOMAIN dep_htmls' : i # j => dep_htmls'[i].label # dep_htmls'[j].label
              /\ report_txt' \in {0, t}
              /\ cleaned_df' \in {0, t}]_vars

\* C10: once clear_output has run, and until a new pass is started,
\* report_txt is empty, cleaned_df is None, dep_htmls is empty and the three
\* save buttons are disabled.
C10_ClearIsDurable ==
    cleared =>
        /\ report_txt = 0
        /\ cleaned_df = 0
        /\ dep_htmls = <<>>
        /\ ~SaveEnabled

====
